---------------------------- MODULE Spec2Model ----------------------------
(***************************************************************************)
(* Model of the NetworkGraph component                                     *)
(* (src/frontend/components/NetworkGraph.tsx): the graph fetch, the scene  *)
(* built by the [data] effect, the force simulation driven by              *)
(* requestAnimationFrame, node dragging, and the pan/zoom transform.       *)
(*                                                                         *)
(* Numbers.  JavaScript numbers are modelled as follows.                   *)
(*   - The transform (x, y, k) and the pins assigned by a drag move are    *)
(*     exact rationals <<n, d>> in lowest terms with d > 0, and so are the *)
(*     positions a scene is seeded with.                                   *)
(*   - Everything tick() computes (alpha, the velocities, the positions    *)
(*     after its first run) is an IEEE-754 binary64 number, computed with  *)
(*     the operations of the source in the order of the source, each one   *)
(*     rounded to nearest, ties to even.  A double is <<s, e, hi, lo>>,    *)
(*     standing for s * (hi * 2^27 + lo) * 2^e with s in {-1, 1},          *)
(*     2^25 <= hi < 2^26 and 0 <= lo < 2^27; zero is <<0, 0, 0, 0>>.       *)
(*     The exponent is not bounded and zero has no sign: no computation of *)
(*     the model overflows, underflows or tells -0 from 0.                 *)
(*   - tick() reads a rational coordinate as the double nearest to it.     *)
(***************************************************************************)
EXTENDS Integers, Sequences, FiniteSets, TLC

VARIABLES
    minAmount,   \* useState(30000): the selected minimum-amount filter
    inflight,    \* fetchNetwork calls awaiting their response
    nextSeq,     \* number of fetchNetwork calls made so far
    data,        \* useState<NetworkData | null>: the payload displayed
    dataSeq,     \* which fetchNetwork call produced data (0: none)
    loading,     \* useState(true)
    mounted,     \* the component is mounted
    transform,   \* transformRef.current
    gens,        \* one scene per run of the [data] effect, oldest first
    pending,     \* setData / setLoading calls React has not rendered yet
    effectPending, \* data was committed and its [data] effect has not run yet
    cleanupPending, \* the removal was committed and the cleanup has not run yet
    used,        \* how much of each exploration bound has been used
    last         \* the operation that produced the current state

vars == <<minAmount, inflight, nextSeq, data, dataSeq, loading, mounted,
          transform, gens, pending, effectPending, cleanupPending, used, last>>

Null == "null"

\* the fx and fy of a node that is not pinned (undefined or null)
NoPin == << >>

-----------------------------------------------------------------------------
(* Bounds of the exploration.                                              *)

MaxEvents == 5        \* events other than frame callbacks (Spec)
MaxTicks == 1         \* frame callbacks that run per scene (Spec)
MaxViewEvents == 4    \* events (SpecView)
PreZoom == 4          \* zoom-button clicks before SpecView starts
MaxSettleEvents == 3  \* events other than frame callbacks (SpecSettle)
SettleStart == 340    \* frame callbacks run before the pointer is used in SpecSettle
MaxEdges == 2         \* edges of a payload (SpecBuild)
MaxForceTicks == 3    \* frame callbacks that run (SpecForce)

-----------------------------------------------------------------------------
(* Rational arithmetic.                                                    *)

Abs(n) == IF n < 0 THEN -n ELSE n

RECURSIVE Gcd(_, _)
Gcd(a, b) == IF b = 0 THEN a ELSE Gcd(b, a % b)

\* n/d in lowest terms, d > 0
Rat(n, d) ==
    LET s == IF d < 0 THEN -1 ELSE 1
        g == Gcd(Abs(n), Abs(d))
    IN  <<(s * n) \div g, (s * d) \div g>>

RInt(n) == <<n, 1>>

RMul(p, q) ==
    LET g1 == Gcd(Abs(p[1]), q[2])
        g2 == Gcd(Abs(q[1]), p[2])
    IN  IF p[1] = 0 \/ q[1] = 0 THEN <<0, 1>>
        ELSE <<(p[1] \div g1) * (q[1] \div g2), (p[2] \div g2) * (q[2] \div g1)>>

\* q # 0
RInv(q) == IF q[1] < 0 THEN <<-q[2], -q[1]>> ELSE <<q[2], q[1]>>

RDiv(p, q) == RMul(p, RInv(q))

RAdd(p, q) ==
    LET g == Gcd(p[2], q[2])
    IN  Rat(p[1] * (q[2] \div g) + q[1] * (p[2] \div g), (p[2] \div g) * q[2])

RNeg(p) == <<-p[1], p[2]>>

RSub(p, q) == RAdd(p, RNeg(q))

RLess(p, q) == RSub(p, q)[1] < 0

RMin(p, q) == IF RLess(q, p) THEN q ELSE p

RMax(p, q) == IF RLess(p, q) THEN q ELSE p

RECURSIVE SqrtBetween(_, _, _)
SqrtBetween(n, lo, hi) ==
    IF lo >= hi THEN lo
    ELSE LET mid == (lo + hi + 1) \div 2
         IN  IF mid * mid <= n THEN SqrtBetween(n, mid, hi)
                               ELSE SqrtBetween(n, lo, mid - 1)

\* floor(Math.sqrt(n)), 0 <= n < 2^31
ISqrt(n) == SqrtBetween(n, 0, 46340)

-----------------------------------------------------------------------------
(* IEEE-754 binary64 arithmetic, round to nearest, ties to even.           *)

\* P2[r + 1] = 2^r
P2 == <<1, 2, 4, 8, 16, 32, 64, 128, 256, 512, 1024, 2048, 4096, 8192, 16384,
        32768, 65536, 131072, 262144, 524288, 1048576, 2097152, 4194304,
        8388608, 16777216, 33554432, 67108864, 134217728>>

\* the double 0
FZero == <<0, 0, 0, 0>>

\* the number of binary digits of n, 0 <= n < 2^31
RECURSIVE BitLen(_)
BitLen(n) ==
    IF n >= 65536 THEN 16 + BitLen(n \div 65536)
    ELSE IF n >= 256 THEN 8 + BitLen(n \div 256)
    ELSE IF n >= 16 THEN 4 + BitLen(n \div 16)
    ELSE IF n >= 4 THEN (IF n >= 8 THEN 4 ELSE 3)
    ELSE IF n >= 2 THEN 2 ELSE n

\* s * (hi * 2^27 + lo) * 2^e followed by the bit guard and, when sticky,
\* by further nonzero bits: rounded to nearest, ties to even
FRound(s, e, hi, lo, guard, sticky) ==
    IF guard = 1 /\ (sticky \/ lo % 2 = 1)
    THEN IF lo + 1 < 134217728 THEN <<s, e, hi, lo + 1>>
         ELSE IF hi + 1 < 67108864 THEN <<s, e, hi + 1, 0>>
         ELSE <<s, e + 1, 33554432, 0>>
    ELSE <<s, e, hi, lo>>

\* s * (h * 2^27 + l) * 2^e for 0 <= h, l < 2^27
FNorm(s, e, h, l) ==
    IF h = 0 /\ l = 0 THEN FZero
    ELSE LET n == IF h > 0 THEN 27 + BitLen(h) ELSE BitLen(l)
             t == 53 - n
         IN  IF t = -1
             THEN FRound(s, e + 1, h \div 2, (l \div 2) + (h % 2) * 67108864, l % 2, FALSE)
             ELSE IF t = 0 THEN <<s, e, h, l>>
             ELSE IF t >= 27 THEN <<s, e - t, l * P2[t - 26], 0>>
             ELSE <<s, e - t, h * P2[t + 1] + (l \div P2[28 - t]),
                    (l % P2[28 - t]) * P2[t + 1]>>

\* the double of an integer, |n| < 2^31
FromInt(n) == IF n = 0 THEN FZero
              ELSE IF n < 0 THEN FNorm(-1, 0, (-n) \div 134217728, (-n) % 134217728)
              ELSE FNorm(1, 0, n \div 134217728, n % 134217728)

\* -a
FNeg(a) == <<-a[1], a[2], a[3], a[4]>>

\* s * (h * 2^54 + l * 2^27 + g) * 2^(e - 27), bit 0 of g set when lower bits were lost
FSum3(s, e, h, l, g) ==
    IF h >= 67108864
    THEN FRound(s, e + 1, h \div 2, (l \div 2) + (h % 2) * 67108864, l % 2, g # 0)
    ELSE IF h >= 33554432
    THEN FRound(s, e, h, l, g \div 67108864, g % 67108864 # 0)
    ELSE IF h >= 16777216
    THEN FRound(s, e - 1, h * 2 + (l \div 67108864),
                (l % 67108864) * 2 + (g \div 67108864),
                (g \div 33554432) % 2, g % 33554432 # 0)
    ELSE FNorm(s, e - 1, h * 2 + (l \div 67108864),
               (l % 67108864) * 2 + (g \div 67108864))

\* |x| >= |y|, both nonzero
FAddOrdered(x, y) ==
    LET d == x[2] - y[2]
        k == d \div 27
        p == P2[(d % 27) + 1]
        q == P2[28 - (d % 27)]
        zh == IF k = 0 THEN y[3] \div p ELSE 0
        zl == IF k = 0 THEN (y[4] \div p) + (y[3] % p) * q
              ELSE IF k = 1 THEN y[3] \div p ELSE 0
        zg0 == IF k = 0 THEN (y[4] % p) * q
               ELSE IF k = 1 THEN (y[4] \div p) + (y[3] % p) * q
               ELSE IF k = 2 THEN y[3] \div p ELSE 0
        lost == IF k = 0 THEN FALSE
                ELSE IF k = 1 THEN y[4] % p # 0
                ELSE IF k = 2 THEN y[4] # 0 \/ y[3] % p # 0
                ELSE TRUE
        zg == IF lost /\ zg0 % 2 = 0 THEN zg0 + 1 ELSE zg0
    IN  IF x[1] = y[1]
        THEN LET l1 == x[4] + zl
             IN  FSum3(x[1], x[2], x[3] + zh + (l1 \div 134217728), l1 % 134217728, zg)
        ELSE LET bg == IF zg > 0 THEN 1 ELSE 0
                 l1 == x[4] - zl - bg
                 bl == IF l1 < 0 THEN 1 ELSE 0
             IN  FSum3(x[1], x[2], x[3] - zh - bl, l1 + bl * 134217728,
                       bg * 134217728 - zg)

\* a + b
FAdd(a, b) ==
    IF a[1] = 0 THEN b
    ELSE IF b[1] = 0 THEN a
    ELSE IF \/ a[2] < b[2]
            \/ a[2] = b[2] /\ (a[3] < b[3] \/ (a[3] = b[3] /\ a[4] < b[4]))
    THEN FAddOrdered(b, a)
    ELSE FAddOrdered(a, b)

\* a - b
FSub(a, b) == FAdd(a, FNeg(b))

\* a * b, by a product of the significands in digits of 14 bits
FMul(a, b) ==
    IF a[1] = 0 \/ b[1] = 0 THEN FZero
    ELSE
    LET a0 == a[4] % 16384
        a1 == (a[4] \div 16384) + (a[3] % 2) * 8192
        a2 == (a[3] \div 2) % 16384
        a3 == a[3] \div 32768
        b0 == b[4] % 16384
        b1 == (b[4] \div 16384) + (b[3] % 2) * 8192
        b2 == (b[3] \div 2) % 16384
        b3 == b[3] \div 32768
        c0 == a0 * b0
        c1 == a0 * b1 + a1 * b0 + (c0 \div 16384)
        c2 == a0 * b2 + a1 * b1 + a2 * b0 + (c1 \div 16384)
        c3 == a0 * b3 + a1 * b2 + a2 * b1 + a3 * b0 + (c2 \div 16384)
        c4 == a1 * b3 + a2 * b2 + a3 * b1 + (c3 \div 16384)
        c5 == a2 * b3 + a3 * b2 + (c4 \div 16384)
        c6 == a3 * b3 + (c5 \div 16384)
        r3 == c3 % 16384
        r4 == c4 % 16384
        r5 == c5 % 16384
        low == c0 % 16384 # 0 \/ c1 % 16384 # 0 \/ c2 % 16384 # 0
    IN  IF c6 >= 2097152
        THEN FRound(a[1] * b[1], a[2] + b[2] + 53,
                    (r5 \div 1024) + c6 * 16,
                    (r3 \div 2048) + r4 * 8 + (r5 % 1024) * 131072,
                    (r3 \div 1024) % 2, r3 % 1024 # 0 \/ low)
        ELSE FRound(a[1] * b[1], a[2] + b[2] + 52,
                    (r5 \div 512) + c6 * 32,
                    (r3 \div 1024) + r4 * 16 + (r5 % 512) * 262144,
                    (r3 \div 512) % 2, r3 % 512 # 0 \/ low)

\* one digit of the long division by v = <<v0, v1, v2, v3>> (v3 >= 2^13):
\* from the remainder r = <<r0, r1, r2, r3>> < v to <<q, r'>> with
\* r * 2^14 = q * v + r'
FDivStep(r, v) ==
    LET est == (r[4] * 16384 + r[3]) \div v[4]
        q0 == IF est > 16383 THEN 16383 ELSE est
        m0 == q0 * v[1]
        m1 == q0 * v[2] + (m0 \div 16384)
        m2 == q0 * v[3] + (m1 \div 16384)
        m3 == q0 * v[4] + (m2 \div 16384)
        \* t = r * 2^14 - q0 * v, limb by limb with borrows; t4 may be negative
        t0 == - (m0 % 16384)
        t1 == r[1] - (m1 % 16384) + (t0 \div 16384)
        t2 == r[2] - (m2 % 16384) + (t1 \div 16384)
        t3 == r[3] - (m3 % 16384) + (t2 \div 16384)
        t4 == r[4] - (m3 \div 16384) + (t3 \div 16384)
        \* t + v
        u0 == (t0 % 16384) + v[1]
        u1 == (t1 % 16384) + v[2] + (u0 \div 16384)
        u2 == (t2 % 16384) + v[3] + (u1 \div 16384)
        u3 == (t3 % 16384) + v[4] + (u2 \div 16384)
        u4 == t4 + (u3 \div 16384)
        \* t + 2 v
        w0 == (u0 % 16384) + v[1]
        w1 == (u1 % 16384) + v[2] + (w0 \div 16384)
        w2 == (u2 % 16384) + v[3] + (w1 \div 16384)
        w3 == (u3 % 16384) + v[4] + (w2 \div 16384)
    IN  IF t4 >= 0
        THEN <<q0, <<t0 % 16384, t1 % 16384, t2 % 16384, t3 % 16384>>>>
        ELSE IF u4 >= 0
        THEN <<q0 - 1, <<u0 % 16384, u1 % 16384, u2 % 16384, u3 % 16384>>>>
        ELSE <<q0 - 2, <<w0 % 16384, w1 % 16384, w2 % 16384, w3 % 16384>>>>

\* the quotient's digits d3 .. d0 (14 bits each, d3 >= 2^12) rounded to 53
\* bits; what is left of the dividend is the sticky bit
FDivRound(s, e, d3, d2, d1, d0) ==
    IF d3[1] >= 8192
    THEN FRound(s, e - 52,
                (d2[1] \div 4) + d3[1] * 4096,
                (d0[1] \div 8) + d1[1] * 2048 + (d2[1] % 4) * 33554432,
                (d0[1] \div 4) % 2, d0[1] % 4 # 0 \/ d0[2] # <<0, 0, 0, 0>>)
    ELSE FRound(s, e - 53,
                (d2[1] \div 2) + d3[1] * 8192,
                (d0[1] \div 4) + d1[1] * 4096 + (d2[1] % 2) * 67108864,
                (d0[1] \div 2) % 2, d0[1] % 2 # 0 \/ d0[2] # <<0, 0, 0, 0>>)

\* the fourth, third and second digit of the quotient, each from the
\* remainder the digit before it left
FDivFourth(s, e, v, d3, d2, d1) == FDivRound(s, e, d3, d2, d1, FDivStep(d1[2], v))

FDivThird(s, e, v, d3, d2) == FDivFourth(s, e, v, d3, d2, FDivStep(d2[2], v))

FDivSecond(s, e, v, d3) == FDivThird(s, e, v, d3, FDivStep(d3[2], v))

\* a / b, b # 0: long division of the significands in limbs of 14 bits, the
\* dividend r shifted one bit below the divisor v so that r < v
FDiv(a, b) ==
    IF a[1] = 0 THEN FZero
    ELSE FDivSecond(a[1] * b[1], a[2] - b[2],
                    <<(b[4] % 2048) * 8, (b[4] \div 2048) % 16384,
                      (b[4] \div 33554432) + (b[3] % 4096) * 4, b[3] \div 4096>>,
                    FDivStep(<<(a[4] % 4096) * 4, (a[4] \div 4096) % 16384,
                               (a[4] \div 67108864) + (a[3] % 8192) * 2, a[3] \div 8192>>,
                             <<(b[4] % 2048) * 8, (b[4] \div 2048) % 16384,
                               (b[4] \div 33554432) + (b[3] % 4096) * 4, b[3] \div 4096>>))

\* one digit of the long division by s < 2^28 (s >= 2^27): from the
\* remainder r < s and the next limb x to <<q, r'>> with r * 2^14 + x = q * s + r'
FRootStep(r, x, s) ==
    LET d1 == s \div 16384
        d0 == s % 16384
        t == (r % d1) * 16384 + x - (r \div d1) * d0
        k == IF t >= 0 THEN 0 ELSE (s - 1 - t) \div s
    IN  <<(r \div d1) - k, t + k * s>>

\* the root's last step: the significand S * 2^28 + Q with its rounding
FRootRound(e, S, Q, exact) ==
    FRound(1, e, S \div 4, (S % 4) * 33554432 + (Q \div 8),
           (Q \div 4) % 2, Q % 4 # 0 \/ ~exact)

\* the low half qn of the root brought into 0 .. 2^28 - 1
FRootCarry(e, s1, qn, exact) ==
    IF qn < 0 THEN FRootRound(e, s1 - 1, 268435455, exact)
    ELSE IF qn >= 268435456 THEN FRootRound(e, s1 + 1, 0, exact)
    ELSE FRootRound(e, s1, qn, exact)

\* the quotient q of the remainder by 2 * s1 is the low half of the root
\* unless q * q exceeds what is left (u above the low 28 bits): then q - 1
FRootLow(e, s1, q, u) ==
    LET q1 == q \div 16384
        q0 == q % 16384
        c0 == q0 * q0
        c1 == 2 * q1 * q0 + (c0 \div 16384)
        qq == q1 * q1 + (c1 \div 16384)
        low == (c1 % 16384) * 16384 + (c0 % 16384)
    IN  IF u < qq \/ (u = qq /\ low > 0)
        THEN FRootCarry(e, s1, q - 1,
                        /\ (2 * q - 1 - low) % 268435456 = 0
                        /\ u - qq + 2 * s1 + ((2 * q - 1 - low) \div 268435456) = 0)
        ELSE FRootCarry(e, s1, q, u = qq /\ low = 0)

\* the last digit of the quotient
FRootDigits(e, s1, qt, sb, sd) ==
    FRootLow(e, s1, qt * 268435456 + sb[1] * 16384 + sd[1], 2 * sd[2])

\* the quotient of r1 * 2^27 by 2 * s1, three digits
FRootQuotient(e, s1, qt, sb) == FRootDigits(e, s1, qt, sb, FRootStep(sb[2], 0, s1))

\* s1 = floor(sqrt(x1 * 2^28 + x0)), r1 the remainder
FRootHigh(e, s1, r1) ==
    FRootQuotient(e, s1, (r1 \div 2) \div s1,
                  FRootStep((r1 \div 2) % s1, (r1 % 2) * 8192, s1))

\* sq = s0 * 2^14 + qa with qa the quotient of the remainder by 2 * s0
FRootFix(e, sq, ra) ==
    IF ra < 0 THEN FRootHigh(e, sq - 1, ra + 2 * sq - 1) ELSE FRootHigh(e, sq, ra)

\* s0 = floor(sqrt(x1)), n0 the remainder with the next 14 bits of x0
FRootNext(e, x0, s0, n0) ==
    FRootFix(e, s0 * 16384 + (n0 \div (2 * s0)),
             (n0 % (2 * s0)) * 16384 + (x0 % 16384)
                 - (n0 \div (2 * s0)) * (n0 \div (2 * s0)))

\* x1 the high 28 bits of the significand, x0 the low 28, s0 = floor(sqrt(x1))
FRootFirst(e, x1, x0, s0) ==
    FRootNext(e, x0, s0, (x1 - s0 * s0) * 16384 + (x0 \div 16384))

\* Math.sqrt(a) for a >= 0: the root of the significand x1 * 2^28 + x0, an
\* even power of two taken out
FSqrt(a) ==
    IF a[1] = 0 THEN FZero
    ELSE IF a[2] % 2 = 1
    THEN FRootFirst(((a[2] - 59) \div 2) + 3,
                    a[3] * 4 + (a[4] \div 33554432), (a[4] % 33554432) * 8,
                    SqrtBetween(a[3] * 4 + (a[4] \div 33554432), 8192, 16383))
    ELSE FRootFirst(((a[2] - 58) \div 2) + 3,
                    a[3] * 2 + (a[4] \div 67108864), (a[4] % 67108864) * 4,
                    SqrtBetween(a[3] * 2 + (a[4] \div 67108864), 8192, 16383))

\* the double nearest to n / d, d # 0: what the literal or the quotient of
\* two integers is in JavaScript
FromRat(n, d) ==
    IF d = 1 THEN FromInt(n)
    ELSE IF d = 2 /\ n # 0 THEN [FromInt(n) EXCEPT ![2] = @ - 1]   \* exact
    ELSE FDiv(FromInt(n), FromInt(d))

\* a < b
FLess(a, b) ==
    IF a[1] # b[1] THEN a[1] < b[1]
    ELSE IF a[1] = 0 THEN FALSE
    ELSE IF a[2] # b[2] THEN (a[1] = 1) = (a[2] < b[2])
    ELSE IF a[3] # b[3] THEN (a[1] = 1) = (a[3] < b[3])
    ELSE a[4] # b[4] /\ ((a[1] = 1) = (a[4] < b[4]))

\* a coordinate as tick() reads it
Num(v) == IF Len(v) = 2 THEN FromRat(v[1], v[2]) ELSE v

-----------------------------------------------------------------------------
(* Program constants.                                                      *)

InitialMinAmount == 30000            \* useState(30000)
FilterOptions == {5000, 10000, 30000, 50000, 100000}   \* the <option> values
Width == 400                         \* container.clientWidth
Height == 500                        \* container.clientHeight (height: 500px)
AlphaOne == FromInt(1)               \* alpha: 1
AlphaMin == FromRat(1, 1000)         \* the settle threshold 0.001
AlphaDecay == FromRat(2, 100)        \* alphaDecay: 0.02
AlphaTarget == FZero                 \* alphaTarget: 0
MoveAlpha == FromRat(3, 10)          \* the 0.3 of sim.alpha(0.3)
UpAlpha == FromRat(1, 10)            \* the 0.1 of sim.alpha(0.1)
HalfWidth == FDiv(FromInt(Width), FromInt(2))     \* width / 2
HalfHeight == FDiv(FromInt(Height), FromInt(2))   \* height / 2
CenterStrength == FromRat(1, 1000)   \* the 0.001 of the centre gravity
LinkStrength == FromRat(5, 100)      \* the 0.05 of the link force
RestBase == FromInt(120)             \* the 120 of targetDist
RestSpan == FromInt(80)              \* the 80 of targetDist
ChargeStrength == FromInt(-300)      \* the -300 of strength
VelocityDecay == FromRat(6, 10)      \* the 0.6 of the velocity decay
FOne == FromInt(1)                   \* the 1 of || 1 and of 1 - amount / maxAmount
KMin == <<1, 5>>                     \* Math.max(0.2, ...)
KMax == <<3, 1>>                     \* Math.min(3, ...)
WheelIn == <<11, 10>>                \* scaleFactor 1.1 (deltaY < 0)
WheelOut == <<9, 10>>                \* scaleFactor 0.9
ButtonIn == <<13, 10>>               \* zoom(1.3)
ButtonOut == <<7, 10>>               \* zoom(0.7)
IdentityTransform == [x |-> <<0, 1>>, y |-> <<0, 1>>, k |-> <<1, 1>>]

-----------------------------------------------------------------------------
(* Inputs: the payloads the server answers with, the pointer positions     *)
(* (relative to the svg's top-left corner) and the Math.random streams.    *)

PayloadPair ==
    [nodes |-> << [id |-> "A", type |-> "org", total |-> 100000],
                  [id |-> "B", type |-> "contractor", total |-> 5000] >>,
     edges |-> << [source |-> "A", target |-> "B", amount |-> 50000, contracts |-> 3] >>]

PayloadDangling ==
    [nodes |-> << [id |-> "A", type |-> "org", total |-> 100000],
                  [id |-> "C", type |-> "contractor", total |-> 0] >>,
     edges |-> << [source |-> "A", target |-> "Z", amount |-> 70000, contracts |-> 1],
                  [source |-> "A", target |-> "C", amount |-> 20000, contracts |-> 2] >>]

PayloadEmpty == [nodes |-> << >>, edges |-> << >>]

\* what the server answers to /api/network?min_amount=min
ServerGraph(min) ==
    IF min = 30000 THEN PayloadPair
    ELSE IF min = 100000 THEN PayloadDangling
    ELSE PayloadEmpty

FilterInputs == {5000, 30000, 100000}

\* the values the select is changed to in Spec: those other than the initial
OtherFilters == FilterInputs \ {InitialMinAmount}

Cursors == { <<10, 20>>, <<30, 10>> }

\* the i-th value (i = 0, 1, ...) Math.random returns: in [0, 1)
Draw(i) == Rat((3 + i * 5) % 8, 8)

-----------------------------------------------------------------------------
(* The scene the [data] effect builds (lines 64-330).                      *)

\* nodeMap.get(id): with a repeated id the Map keeps the last node
NodeIndex(nodes, id) ==
    LET hits == {i \in 1..Len(nodes) : nodes[i].id = id}
    IN  IF hits = {} THEN 0 ELSE CHOOSE i \in hits : \A j \in hits : j <= i

\* variant: the filter tests the source only
LiveEdgesSourceOnly(payload) ==
    LET has(e) == NodeIndex(payload.nodes, e.source) # 0
        kept == SelectSeq(payload.edges, has)
    IN  [i \in 1..Len(kept) |->
            [source |-> NodeIndex(payload.nodes, kept[i].source),
             target |-> NodeIndex(payload.nodes, kept[i].target),
             amount |-> kept[i].amount,
             contracts |-> kept[i].contracts]]

\* data.edges.filter(...).map(...): the live edges, endpoints resolved
LiveEdges(payload) ==
    LET has(e) == /\ NodeIndex(payload.nodes, e.source) # 0
                  /\ NodeIndex(payload.nodes, e.target) # 0
        kept == SelectSeq(payload.edges, has)
    IN  [i \in 1..Len(kept) |->
            [source |-> NodeIndex(payload.nodes, kept[i].source),
             target |-> NodeIndex(payload.nodes, kept[i].target),
             amount |-> kept[i].amount,
             contracts |-> kept[i].contracts]]

MaxOf(S) == CHOOSE m \in S : \A n \in S : n <= m

\* Math.max(...edges.map((e) => e.amount), 1)
MaxAmount(edges) == MaxOf({edges[i].amount : i \in 1..Len(edges)} \cup {1})

\* Math.max(...nodes.map((n) => n.total), 1)
MaxTotal(nodes) == MaxOf({nodes[i].total : i \in 1..Len(nodes)} \cup {1})

\* stands for NaN where a radius is expected: no radius is negative
NaN == -1

\* variant: the radius without its base
NodeRadiusNoBase(node, maxTotal) ==
    IF node.total < 0 THEN NaN
    ELSE ISqrt((node.total * 10000) \div maxTotal) * (IF node.type = "org" THEN 16 ELSE 10)

\* nodeRadius(node) in hundredths of a pixel:
\* base + Math.sqrt(node.total / maxTotal) * (org ? 16 : 10); the square
\* root of a negative number is NaN
NodeRadius(node, maxTotal) ==
    IF node.total < 0 THEN NaN
    ELSE (IF node.type = "org" THEN 1200 ELSE 600)
         + ISqrt((node.total * 10000) \div maxTotal) * (IF node.type = "org" THEN 16 ELSE 10)

\* variant: the ratio not clamped
EdgeWidthUnclamped(amount, maxAmount) == Rat(amount * 6, maxAmount)

\* edgeWidth(amount): Math.max(1, Math.min(6, (amount / maxAmount) * 6))
EdgeWidth(amount, maxAmount) ==
    RMax(RInt(1), RMin(RInt(6), Rat(amount * 6, maxAmount)))

\* variant: the spread 1.2 instead of 0.6
SeedCoordWide(extent, r) ==
    RAdd(Rat(extent, 2), RMul(RMul(RSub(r, <<1, 2>>), RInt(extent)), <<6, 5>>))

\* width / 2 + (Math.random() - 0.5) * width * 0.6
SeedCoord(extent, r) ==
    RAdd(Rat(extent, 2), RMul(RMul(RSub(r, <<1, 2>>), RInt(extent)), <<3, 5>>))

\* nodes deep-copied (line 97) and given their initial position (233-238)
SceneNodes(payload, drawn) ==
    [i \in 1..Len(payload.nodes) |->
        [id |-> payload.nodes[i].id,
         type |-> payload.nodes[i].type,
         total |-> payload.nodes[i].total,
         x |-> SeedCoord(Width, Draw(drawn + 2 * (i - 1))),
         y |-> SeedCoord(Height, Draw(drawn + 2 * (i - 1) + 1)),
         vx |-> FZero, vy |-> FZero,
         fx |-> NoPin, fy |-> NoPin,
         dragging |-> FALSE,     \* the closure variable of line 191
         listeners |-> 0]]       \* onMove/onUp pairs registered on document

\* the closure of one run of the effect; drawn counts the Math.random
\* calls made before it
BuildScene(payload, drawn) ==
    [nodes |-> SceneNodes(payload, drawn),
     edges |-> LiveEdges(payload),
     maxAmount |-> MaxAmount(LiveEdges(payload)),
     \* the stroke-width of each edge's line (line 126)
     widths |-> [i \in DOMAIN LiveEdges(payload) |->
                   EdgeWidth(LiveEdges(payload)[i].amount, MaxAmount(LiveEdges(payload)))],
     \* the r of each node's circle (lines 139-140)
     radii |-> [i \in DOMAIN payload.nodes |->
                  NodeRadius(payload.nodes[i], MaxTotal(payload.nodes))],
     alpha |-> AlphaOne,          \* sim.alpha = 1
     running |-> TRUE,            \* sim.running = true
     frames |-> 1,                \* requestAnimationFrame(tick), line 329
     ticks |-> 0,                 \* frame callbacks run so far
     isPanning |-> FALSE,         \* line 333
     panStart |-> <<0, 0>>,       \* line 334
     \* the transform the group g is displayed with: g is created without a
     \* transform attribute (line 93), which displays it untransformed
     shown |-> IdentityTransform]

-----------------------------------------------------------------------------
(* The simulation tick (lines 241-325).                                    *)

\* variant: the difference taken the other way round
DecayAlphaAway(alpha) == FAdd(alpha, FMul(FSub(alpha, AlphaTarget), AlphaDecay))

\* sim.alpha += (sim.alphaTarget - sim.alpha) * sim.alphaDecay
DecayAlpha(alpha) == FAdd(alpha, FMul(FSub(AlphaTarget, alpha), AlphaDecay))

\* centre gravity on one coordinate: (width / 2 - node.x) * 0.001 * sim.alpha
CenterDelta(half, pos, alpha) ==
    FMul(FMul(FSub(half, Num(pos)), CenterStrength), alpha)

RECURSIVE CenterLoop(_, _, _)
\* the loop of lines 251-254 from node i on
CenterLoop(nodes, alpha, i) ==
    IF i > Len(nodes) THEN nodes
    ELSE CenterLoop(
             [nodes EXCEPT
                ![i].vx = FAdd(@, CenterDelta(HalfWidth, nodes[i].x, alpha)),
                ![i].vy = FAdd(@, CenterDelta(HalfHeight, nodes[i].y, alpha))],
             alpha, i + 1)

\* targetDist = 120 + (1 - e.amount / maxAmount) * 80
TargetDist(amount, maxAmount) ==
    FAdd(RestBase,
         FMul(FSub(FOne, FDiv(FromInt(amount), FromInt(maxAmount))), RestSpan))

\* Math.sqrt(dx * dx + dy * dy)
Hypot(dx, dy) == FSqrt(FAdd(FMul(dx, dx), FMul(dy, dy)))

\* v || 1: a zero is replaced by 1
OrOne(v) == IF v = FZero THEN FOne ELSE v

\* force = ((dist - targetDist) / dist) * 0.05 * sim.alpha
LinkForce(dist, targetDist, alpha) ==
    FMul(FMul(FDiv(FSub(dist, targetDist), dist), LinkStrength), alpha)

\* s.vx += px, s.vy += py, t.vx -= px, t.vy -= py
LinkPush(px, py) == [source |-> <<px, py>>, target |-> <<FNeg(px), FNeg(py)>>]

\* the products dx * force and dy * force
LinkAlong(dx, dy, force) == LinkPush(FMul(dx, force), FMul(dy, force))

\* the link force of an edge whose target is at (dx, dy) from its source,
\* with dist = Math.sqrt(dx * dx + dy * dy) || 1
LinkBetween(dx, dy, targetDist, alpha) ==
    LinkAlong(dx, dy, LinkForce(OrOne(Hypot(dx, dy)), targetDist, alpha))

\* variant: the difference is taken from the target to the source, so the
\* spring pushes where it should pull
LinkDeltaAway(s, t, amount, maxAmount, alpha) ==
    LinkBetween(FSub(Num(s.x), Num(t.x)), FSub(Num(s.y), Num(t.y)),
                TargetDist(amount, maxAmount), alpha)

\* the link force of one edge (lines 259-270), dx = t.x - s.x and
\* dy = t.y - s.y: what is added to the velocity of the source s, dx * force
\* and dy * force, and what is added to the velocity of the target t, their
\* negatives (t.vx -= dx * force)
LinkDelta(s, t, amount, maxAmount, alpha) ==
    LinkBetween(FSub(Num(t.x), Num(s.x)), FSub(Num(t.y), Num(s.y)),
                TargetDist(amount, maxAmount), alpha)

\* lines 266-269 on the nodes s and t: the source's velocity is updated
\* first, then the target's
LinkApply(nodes, s, t, d) ==
    [[nodes EXCEPT ![s].vx = FAdd(@, d.source[1]),
                   ![s].vy = FAdd(@, d.source[2])]
        EXCEPT ![t].vx = FAdd(@, d.target[1]),
               ![t].vy = FAdd(@, d.target[2])]

RECURSIVE LinkLoop(_, _, _, _, _)
\* the loop of lines 257-271 from edge i on
LinkLoop(nodes, edges, maxAmount, alpha, i) ==
    IF i > Len(edges) THEN nodes
    ELSE LinkLoop(LinkApply(nodes, edges[i].source, edges[i].target,
                            LinkDelta(nodes[edges[i].source], nodes[edges[i].target],
                                      edges[i].amount, maxAmount, alpha)),
                  edges, maxAmount, alpha, i + 1)

\* force = (-300 * sim.alpha) / distSq
ChargeForce(distSq, alpha) == FDiv(FMul(ChargeStrength, alpha), distSq)

\* a.vx -= cx, a.vy -= cy, b.vx += cx, b.vy += cy
ChargePush(cx, cy) == [a |-> <<FNeg(cx), FNeg(cy)>>, b |-> <<cx, cy>>]

\* the products (dx / dist) * force and (dy / dist) * force
ChargeAlong(dx, dy, dist, force) ==
    ChargePush(FMul(FDiv(dx, dist), force), FMul(FDiv(dy, dist), force))

\* dist = Math.sqrt(distSq) and the force of the pair
ChargeAt(dx, dy, distSq, alpha) ==
    ChargeAlong(dx, dy, FSqrt(distSq), ChargeForce(distSq, alpha))

\* the charge of one pair (lines 276-288), dx = b.x - a.x, dy = b.y - a.y
\* and distSq = dx * dx + dy * dy || 1: what is added to the velocity of a,
\* -((dx / dist) * force) and -((dy / dist) * force), and what is added to
\* the velocity of b, (dx / dist) * force and (dy / dist) * force
ChargeBetween(dx, dy, alpha) ==
    ChargeAt(dx, dy, OrOne(FAdd(FMul(dx, dx), FMul(dy, dy))), alpha)

ChargeDelta(a, b, alpha) ==
    ChargeBetween(FSub(Num(b.x), Num(a.x)), FSub(Num(b.y), Num(a.y)), alpha)

\* lines 285-288 on the nodes i and j
ChargeApply(nodes, i, j, d) ==
    [[nodes EXCEPT ![i].vx = FAdd(@, d.a[1]),
                   ![i].vy = FAdd(@, d.a[2])]
        EXCEPT ![j].vx = FAdd(@, d.b[1]),
               ![j].vy = FAdd(@, d.b[2])]

RECURSIVE ChargeLoop(_, _, _, _)
\* the loops of lines 274-290 from the pair (i, j) on
ChargeLoop(nodes, alpha, i, j) ==
    IF i > Len(nodes) THEN nodes
    ELSE IF j > Len(nodes) THEN ChargeLoop(nodes, alpha, i + 1, i + 2)
    ELSE ChargeLoop(ChargeApply(nodes, i, j, ChargeDelta(nodes[i], nodes[j], alpha)),
                    alpha, i, j + 1)

\* velocity decay and position update of one node (lines 294-304)
Integrate(n) ==
    IF n.fx # NoPin
    THEN [n EXCEPT !.x = n.fx, !.y = n.fy, !.vx = FZero, !.vy = FZero]
    ELSE LET vx == FMul(n.vx, VelocityDecay)
             vy == FMul(n.vy, VelocityDecay)
         IN  [n EXCEPT !.vx = vx, !.vy = vy,
                       !.x = FAdd(Num(n.x), vx),
                       !.y = FAdd(Num(n.y), vy)]

RECURSIVE IntegrateLoop(_, _)
\* the loop of lines 293-305 from node i on
IntegrateLoop(nodes, i) ==
    IF i > Len(nodes) THEN nodes
    ELSE IntegrateLoop([nodes EXCEPT ![i] = Integrate(@)], i + 1)

\* the nodes of scene sc after the four loops of lines 250-305
MoveNodes(sc, alpha) ==
    IntegrateLoop(
        ChargeLoop(
            LinkLoop(CenterLoop(sc.nodes, alpha, 1), sc.edges, sc.maxAmount, alpha, 1),
            alpha, 1, 2),
        1)

\* variant: requestAnimationFrame(tick) inside the loop over the nodes
TickPerNode(sc) ==
    IF ~sc.running THEN sc
    ELSE LET alpha == DecayAlpha(sc.alpha)
         IN  IF FLess(alpha, AlphaMin)
             THEN [sc EXCEPT !.alpha = alpha, !.running = FALSE]
             ELSE [sc EXCEPT
                     !.alpha = alpha,
                     !.nodes = MoveNodes(sc, alpha),
                     !.frames = @ + Len(sc.nodes)]

\* variant: the settling tick leaves running set
TickKeepsRunning(sc) ==
    IF ~sc.running THEN sc
    ELSE LET alpha == DecayAlpha(sc.alpha)
         IN  IF FLess(alpha, AlphaMin)
             THEN [sc EXCEPT !.alpha = alpha]
             ELSE [sc EXCEPT
                     !.alpha = alpha,
                     !.nodes = MoveNodes(sc, alpha),
                     !.frames = @ + 1]

\* tick() on scene sc, called from a frame callback
Tick(sc) ==
    IF ~sc.running THEN sc
    ELSE LET alpha == DecayAlpha(sc.alpha)
         IN  IF FLess(alpha, AlphaMin)
             THEN [sc EXCEPT !.alpha = alpha, !.running = FALSE]
             ELSE [sc EXCEPT
                     !.alpha = alpha,
                     !.nodes = MoveNodes(sc, alpha),
                     !.frames = @ + 1]       \* requestAnimationFrame(tick)

-----------------------------------------------------------------------------
(* Handlers, as operators on one scene or on the transform.                *)

\* variant: sim.alpha(v) assigns alpha and returns sim, as d3's simulation does
SimAlphaCallable == FALSE

\* sim.alpha is the number of line 222, never a function: the call
\* sim.alpha(v) of lines 204 and 211 raises a TypeError, so the handler stops
\* there and neither alpha nor running is assigned
SimAlphaThrows == TRUE

\* sim.alpha(v).restart()
Reheat(sc, v) ==
    IF SimAlphaThrows THEN sc ELSE [sc EXCEPT !.alpha = v, !.running = TRUE]

\* (c - pan) / k on both coordinates: the pointer in world coordinates
ScreenToWorld(t, c) ==
    <<RDiv(RSub(RInt(c[1]), t.x), t.k), RDiv(RSub(RInt(c[2]), t.y), t.k)>>

\* the node mousedown listener (lines 192-217) on node n of scene sc
NodeDown(sc, n) ==
    [sc EXCEPT !.nodes[n] = [@ EXCEPT !.dragging = TRUE,
                                       !.fx = sc.nodes[n].x,
                                       !.fy = sc.nodes[n].y,
                                       !.listeners = @ + 1]]

\* variant: the pin is the cursor itself, the transform is not read
NodeMoveUntransformed(sc, n, t, c) ==
    IF sc.nodes[n].listeners = 0 \/ ~sc.nodes[n].dragging THEN sc
    ELSE Reheat([sc EXCEPT !.nodes[n].fx = RInt(c[1]),
                           !.nodes[n].fy = RInt(c[2])], MoveAlpha)

\* every onMove registered for node n of scene sc (lines 199-205); the
\* registered copies assign the same pin
NodeMove(sc, n, t, c) ==
    IF sc.nodes[n].listeners = 0 \/ ~sc.nodes[n].dragging THEN sc
    ELSE Reheat([sc EXCEPT !.nodes[n].fx = ScreenToWorld(t, c)[1],
                           !.nodes[n].fy = ScreenToWorld(t, c)[2]], MoveAlpha)

\* variant: onUp ends the drag and leaves the pin
NodeUpKeepsPin(sc, n) ==
    IF sc.nodes[n].listeners = 0 THEN sc
    ELSE [sc EXCEPT !.nodes[n].dragging = FALSE]

\* every onUp registered for node n of scene sc (lines 206-214)
NodeUp(sc, n) ==
    IF sc.nodes[n].listeners = 0 THEN sc
    ELSE LET cleared == [sc EXCEPT !.nodes[n].dragging = FALSE,
                                   !.nodes[n].fx = NoPin, !.nodes[n].fy = NoPin]
         IN  IF SimAlphaThrows THEN cleared
             ELSE [Reheat(cleared, UpAlpha) EXCEPT !.nodes[n].listeners = 0]

RECURSIVE OverNodes(_, _, _, _, _)
\* the document listeners of scene sc run for nodes i..Len(sc.nodes)
OverNodes(sc, i, op, t, c) ==
    IF i > Len(sc.nodes) THEN sc
    ELSE OverNodes(IF op = "move" THEN NodeMove(sc, i, t, c) ELSE NodeUp(sc, i),
                   i + 1, op, t, c)

\* the svg mousemove listener of scene sc (lines 342-349) on transform t
PanMove(sc, t, c) ==
    IF ~sc.isPanning THEN [sc |-> sc, t |-> t]
    ELSE LET moved == [t EXCEPT !.x = RAdd(@, RInt(c[1] - sc.panStart[1])),
                                !.y = RAdd(@, RInt(c[2] - sc.panStart[2]))]
         IN  [sc |-> [sc EXCEPT !.panStart = c, !.shown = moved], t |-> moved]

Clamp(k) == RMin(KMax, RMax(KMin, k))

\* variant: the pan computed from the unclamped scale
WheelTransformUnclamped(t, c, factor) ==
    LET w == ScreenToWorld(t, c)
    IN  [x |-> RSub(RInt(c[1]), RMul(w[1], RMul(t.k, factor))),
         y |-> RSub(RInt(c[2]), RMul(w[2], RMul(t.k, factor))),
         k |-> RMin(KMax, RMax(KMin, RMul(t.k, factor)))]

\* the transform after the wheel listener (lines 356-371)
WheelTransform(t, c, factor) ==
    LET newK == Clamp(RMul(t.k, factor))
        w == ScreenToWorld(t, c)
    IN  [x |-> RSub(RInt(c[1]), RMul(w[1], newK)),
         y |-> RSub(RInt(c[2]), RMul(w[2], newK)),
         k |-> newK]

RECURSIVE SvgListeners(_, _, _, _, _)
\* the svg listeners for event op, scene i first: every run of the effect
\* added its own to the same svg element and none is ever removed
SvgListeners(gs, i, op, t, c) ==
    IF i > Len(gs) THEN [gens |-> gs, t |-> t]
    ELSE IF op = "pan"
    THEN LET r == PanMove(gs[i], t, c)
         IN  SvgListeners([gs EXCEPT ![i] = r.sc], i + 1, op, r.t, c)
    ELSE IF op = "down"
    THEN SvgListeners([gs EXCEPT ![i].isPanning = TRUE, ![i].panStart = c],
                      i + 1, op, t, c)
    ELSE IF op = "up"
    THEN SvgListeners([gs EXCEPT ![i].isPanning = FALSE], i + 1, op, t, c)
    ELSE LET z == WheelTransform(t, c, IF op = "wheelIn" THEN WheelIn ELSE WheelOut)
         IN  SvgListeners([gs EXCEPT ![i].shown = z], i + 1, op, z, c)

\* the document listeners for event op ("move" or "up") over all scenes
DocListeners(gs, op, t, c) ==
    [i \in DOMAIN gs |-> OverNodes(gs[i], 1, op, t, c)]

\* variant: the button's scale not clamped
ZoomTransformUnclamped(t, factor) == [t EXCEPT !.k = RMul(t.k, factor)]

\* zoom(factor) (lines 378-386)
ZoomTransform(t, factor) == [t EXCEPT !.k = Clamp(RMul(t.k, factor))]

-----------------------------------------------------------------------------
(* The state machine.                                                      *)

Current == Len(gens)        \* the scene whose elements are in the document

Event(op, g, n, c) == [op |-> op, g |-> g, n |-> n, c |-> c]

\* no state update is queued: seq and payload are the last setData queued
\* (seq 0: none), loading the argument of the last setLoading queued
NoPending == [seq |-> 0, payload |-> Null, loading |-> "none"]

\* some state update awaits its render
Queued == pending.seq # 0 \/ pending.loading # "none"

Init ==
    /\ minAmount = InitialMinAmount
    /\ inflight = {[seq |-> 1, min |-> InitialMinAmount]}   \* the mount effect
    /\ nextSeq = 1
    /\ data = Null
    /\ dataSeq = 0
    /\ loading = TRUE
    /\ mounted = TRUE
    /\ transform = IdentityTransform
    /\ gens = << >>
    /\ pending = NoPending
    /\ effectPending = FALSE
    /\ cleanupPending = FALSE
    /\ used = 0
    /\ last = Event("mount", 0, 0, <<0, 0>>)

RECURSIVE Drawn(_)
\* the Math.random calls made by the scenes gs: two per node
Drawn(gs) == IF gs = << >> THEN 0 ELSE 2 * Len(gs[1].nodes) + Drawn(Tail(gs))

\* the effect's cleanup (lines 373-375)
Cleanup(sc) == [sc EXCEPT !.running = FALSE]

\* the [data] effect for a new payload: the cleanup of the previous run,
\* then a new scene
DataEffect(gs, payload) ==
    Append([i \in DOMAIN gs |-> IF i = Len(gs) THEN Cleanup(gs[i]) ELSE gs[i]],
           BuildScene(payload, Drawn(gs)))

\* the scenes once a [data] effect still pending has run
Flushed(gs) == IF effectPending THEN DataEffect(gs, data) ELSE gs

\* the <select> changes minAmount: a synchronous render of the new value,
\* which runs a [data] effect still pending first and leaves the queued
\* updates for their later render; then the effect of line 60 calls
\* fetchNetwork, which queues setLoading(true) behind them and issues the
\* request
ChangeFilter(m, maxEvents) ==
    /\ mounted
    /\ m # minAmount
    /\ used < maxEvents
    /\ used' = used + 1
    /\ minAmount' = m
    /\ nextSeq' = nextSeq + 1
    /\ inflight' = inflight \cup {[seq |-> nextSeq + 1, min |-> m]}
    /\ last' = Event("filter", 0, 0, <<0, 0>>)
    /\ gens' = Flushed(gens)
    /\ effectPending' = FALSE
    /\ pending' = [pending EXCEPT !.loading = "true"]
    /\ UNCHANGED <<data, dataSeq, loading, mounted, transform, cleanupPending>>

\* the response to request r arrives with res.ok and body payload: the
\* continuation of fetchNetwork (lines 50-56) calls setData(json) and, in
\* finally, setLoading(false); React queues both for a later render
FetchOk(r, payload, maxEvents) ==
    /\ r \in inflight
    /\ used < maxEvents
    /\ used' = used + 1
    /\ inflight' = inflight \ {r}
    /\ last' = Event("fetchOk", r.seq, 0, <<0, 0>>)
    /\ pending' = IF mounted
                  THEN [seq |-> r.seq, payload |-> payload, loading |-> "false"]
                  ELSE pending
    /\ UNCHANGED <<minAmount, nextSeq, data, dataSeq, loading, mounted, transform,
                   gens, effectPending, cleanupPending>>

\* React renders the queued updates in one commit: the last setData and the
\* last setLoading win; the [data] effect of this commit is passive and runs
\* later, the one of an earlier commit, if still pending, runs before this
\* render
Render ==
    /\ mounted
    /\ Queued
    /\ gens' = Flushed(gens)
    /\ IF pending.seq # 0
       THEN /\ data' = pending.payload
            /\ dataSeq' = pending.seq
            /\ effectPending' = TRUE
       ELSE /\ UNCHANGED <<data, dataSeq>>
            /\ effectPending' = FALSE
    /\ loading' = IF pending.loading = "none" THEN loading ELSE pending.loading = "true"
    /\ pending' = NoPending
    /\ last' = Event("render", pending.seq, 0, <<0, 0>>)
    /\ UNCHANGED <<minAmount, inflight, nextSeq, mounted, transform, cleanupPending,
                   used>>

\* the pending [data] effect runs (lines 64-376): the cleanup of the
\* previous run, then the scene of the committed data
RunDataEffect ==
    /\ effectPending
    /\ gens' = DataEffect(gens, data)
    /\ effectPending' = FALSE
    /\ last' = Event("effect", dataSeq, 0, <<0, 0>>)
    /\ UNCHANGED <<minAmount, inflight, nextSeq, data, dataSeq, loading, mounted,
                   transform, pending, cleanupPending, used>>

\* variant: a failed request is issued again
FetchFailRetry(r, maxEvents) ==
    /\ r \in inflight
    /\ used < maxEvents
    /\ used' = used + 1
    /\ nextSeq' = nextSeq + 1
    /\ inflight' = (inflight \ {r}) \cup {[seq |-> nextSeq + 1, min |-> r.min]}
    /\ last' = Event("fetchFail", r.seq, 0, <<0, 0>>)
    /\ UNCHANGED <<minAmount, data, dataSeq, loading, mounted, transform, gens,
                   pending, effectPending, cleanupPending>>

\* the request fails (fetch rejects or !res.ok): catch, then finally
\* setLoading(false), queued for a later render
FetchFail(r, maxEvents) ==
    /\ r \in inflight
    /\ used < maxEvents
    /\ used' = used + 1
    /\ inflight' = inflight \ {r}
    /\ pending' = IF mounted THEN [pending EXCEPT !.loading = "false"] ELSE pending
    /\ last' = Event("fetchFail", r.seq, 0, <<0, 0>>)
    /\ UNCHANGED <<minAmount, nextSeq, data, dataSeq, loading, mounted, transform,
                   gens, effectPending, cleanupPending>>

\* React commits the removal of the component: a [data] effect still
\* pending runs before that render, the queued updates are dropped, and the
\* cleanup of the last run of the [data] effect is left to a later task
Unmount(maxEvents) ==
    /\ mounted
    /\ used < maxEvents
    /\ used' = used + 1
    /\ mounted' = FALSE
    /\ gens' = Flushed(gens)
    /\ effectPending' = FALSE
    /\ cleanupPending' = (Len(Flushed(gens)) >= 1)
    /\ pending' = NoPending
    /\ last' = Event("unmount", 0, 0, <<0, 0>>)
    /\ UNCHANGED <<minAmount, inflight, nextSeq, data, dataSeq, loading, transform>>

\* the cleanup of the removed component runs (lines 373-375)
RunCleanup ==
    /\ cleanupPending
    /\ gens' = [i \in DOMAIN gens |->
                  IF i = Current THEN Cleanup(gens[i]) ELSE gens[i]]
    /\ cleanupPending' = FALSE
    /\ last' = Event("cleanup", Current, 0, <<0, 0>>)
    /\ UNCHANGED <<minAmount, inflight, nextSeq, data, dataSeq, loading, mounted,
                   transform, pending, effectPending, used>>

\* one frame callback of scene sc runs tick()
RunFrame(sc) == Tick([sc EXCEPT !.frames = @ - 1, !.ticks = @ + 1])

\* a frame callback of scene g runs
Frame(g, maxTicks) ==
    /\ g \in DOMAIN gens
    /\ gens[g].frames > 0
    /\ gens[g].ticks < maxTicks
    /\ gens' = [gens EXCEPT ![g] = RunFrame(@)]
    /\ last' = Event("frame", g, 0, <<0, 0>>)
    /\ UNCHANGED <<pending, effectPending, cleanupPending, minAmount, inflight, nextSeq, data, dataSeq, loading, mounted,
                   transform, used>>

\* variant: without stopPropagation the mousedown bubbles to the svg
NodeMouseDownBubbles(n, maxEvents) ==
    /\ mounted
    /\ Current >= 1
    /\ n \in DOMAIN gens[Current].nodes
    /\ used < maxEvents
    /\ used' = used + 1
    /\ gens' = SvgListeners([gens EXCEPT ![Current] = NodeDown(@, n)], 1, "down",
                            transform, <<0, 0>>).gens
    /\ last' = Event("nodeDown", Current, n, <<0, 0>>)
    /\ UNCHANGED <<minAmount, inflight, nextSeq, data, dataSeq, loading, mounted, transform, pending, effectPending, cleanupPending>>

\* mousedown on the group of node n; stopPropagation keeps it from the svg
NodeMouseDown(n, maxEvents) ==
    /\ mounted
    /\ Current >= 1
    /\ n \in DOMAIN gens[Current].nodes
    /\ used < maxEvents
    /\ used' = used + 1
    /\ gens' = [gens EXCEPT ![Current] = NodeDown(@, n)]
    /\ last' = Event("nodeDown", Current, n, <<0, 0>>)
    /\ UNCHANGED <<minAmount, inflight, nextSeq, data, dataSeq, loading, mounted, transform, pending, effectPending, cleanupPending>>

\* mousedown on the svg outside every node
SvgMouseDown(c, maxEvents) ==
    /\ mounted
    /\ Current >= 1
    /\ used < maxEvents
    /\ used' = used + 1
    /\ gens' = SvgListeners(gens, 1, "down", transform, c).gens
    /\ last' = Event("svgDown", 0, 0, c)
    /\ UNCHANGED <<minAmount, inflight, nextSeq, data, dataSeq, loading, mounted, transform, pending, effectPending, cleanupPending>>

\* a mousemove at c: over the svg it reaches the svg listeners and then,
\* bubbling, the document listeners; elsewhere only the document listeners
MouseMove(c, overSvg, maxEvents) ==
    /\ overSvg => mounted
    /\ Current >= 1
    /\ used < maxEvents
    /\ used' = used + 1
    /\ LET svg == IF overSvg THEN SvgListeners(gens, 1, "pan", transform, c)
                  ELSE [gens |-> gens, t |-> transform]
       IN  /\ transform' = svg.t
           /\ gens' = DocListeners(svg.gens, "move", svg.t, c)
    /\ last' = Event(IF overSvg THEN "moveSvg" ELSE "moveDoc", 0, 0, c)
    /\ UNCHANGED <<minAmount, inflight, nextSeq, data, dataSeq, loading, mounted, pending, effectPending, cleanupPending>>

\* a mouseup, over the svg or elsewhere in the document
MouseUp(overSvg, maxEvents) ==
    /\ overSvg => mounted
    /\ Current >= 1
    /\ used < maxEvents
    /\ used' = used + 1
    /\ LET svg == IF overSvg THEN SvgListeners(gens, 1, "up", transform, <<0, 0>>).gens
                  ELSE gens
       IN  gens' = DocListeners(svg, "up", transform, <<0, 0>>)
    /\ last' = Event(IF overSvg THEN "upSvg" ELSE "upDoc", 0, 0, <<0, 0>>)
    /\ UNCHANGED <<minAmount, inflight, nextSeq, data, dataSeq, loading, mounted, transform, pending, effectPending, cleanupPending>>

\* a wheel event over the svg at c; zoomIn is deltaY < 0
Wheel(c, zoomIn, maxEvents) ==
    /\ mounted
    /\ Current >= 1
    /\ used < maxEvents
    /\ used' = used + 1
    /\ LET svg == SvgListeners(gens, 1, IF zoomIn THEN "wheelIn" ELSE "wheelOut",
                               transform, c)
       IN  /\ transform' = svg.t
           /\ gens' = svg.gens
    /\ last' = Event(IF zoomIn THEN "wheelIn" ELSE "wheelOut", 0, 0, c)
    /\ UNCHANGED <<minAmount, inflight, nextSeq, data, dataSeq, loading, mounted, pending, effectPending, cleanupPending>>

\* a click on a zoom button: zoom(1.3) or zoom(0.7); without a group g in
\* the svg the handler returns
ZoomButton(zoomIn, maxEvents) ==
    /\ mounted
    /\ Current >= 1
    /\ used < maxEvents
    /\ used' = used + 1
    /\ transform' = ZoomTransform(transform, IF zoomIn THEN ButtonIn ELSE ButtonOut)
    /\ gens' = [gens EXCEPT ![Current].shown = transform']
    /\ last' = Event(IF zoomIn THEN "buttonIn" ELSE "buttonOut", 0, 0, <<0, 0>>)
    /\ UNCHANGED <<minAmount, inflight, nextSeq, data, dataSeq, loading, mounted, pending, effectPending, cleanupPending>>

\* variant: the group's attribute is reset, the stored transform is not
ResetViewDisplayOnly(maxEvents) ==
    /\ mounted
    /\ Current >= 1
    /\ used < maxEvents
    /\ used' = used + 1
    /\ transform' = transform
    /\ gens' = [gens EXCEPT ![Current].shown = IdentityTransform]
    /\ last' = Event("reset", 0, 0, <<0, 0>>)
    /\ UNCHANGED <<minAmount, inflight, nextSeq, data, dataSeq, loading, mounted, pending, effectPending, cleanupPending>>

\* a click on the reset button (lines 388-395)
ResetView(maxEvents) ==
    /\ mounted
    /\ Current >= 1
    /\ used < maxEvents
    /\ used' = used + 1
    /\ transform' = IdentityTransform
    /\ gens' = [gens EXCEPT ![Current].shown = IdentityTransform]
    /\ last' = Event("reset", 0, 0, <<0, 0>>)
    /\ UNCHANGED <<minAmount, inflight, nextSeq, data, dataSeq, loading, mounted, pending, effectPending, cleanupPending>>

-----------------------------------------------------------------------------
(* Spec: fetches, scenes, a bounded number of frames, and node drags.      *)

Next ==
    \/ \E m \in OtherFilters : ChangeFilter(m, MaxEvents)
    \/ \E r \in inflight : FetchOk(r, ServerGraph(r.min), MaxEvents)
    \/ Render
    \/ RunDataEffect
    \/ \E r \in inflight : FetchFail(r, MaxEvents)
    \/ Unmount(MaxEvents)
    \/ RunCleanup
    \/ \E g \in DOMAIN gens : Frame(g, MaxTicks)
    \/ \E n \in 1..2 : NodeMouseDown(n, MaxEvents)
    \/ \E c \in Cursors : MouseMove(c, FALSE, MaxEvents)
    \/ MouseUp(FALSE, MaxEvents)

Spec == Init /\ [][Next]_vars

-----------------------------------------------------------------------------
(* SpecDecay: the first response and then the frames of its simulation,    *)
(* every one of them, with no interaction.                                 *)

NextDecay ==
    \/ \E r \in inflight : FetchOk(r, ServerGraph(r.min), 1)
    \/ Render
    \/ RunDataEffect
    \/ \E g \in DOMAIN gens : Frame(g, gens[g].ticks + 1)

SpecDecay == Init /\ [][NextDecay]_vars

\* ENABLED <<NextDecay>>_vars, written out: the response is awaited, its
\* render or the [data] effect is pending, or a frame callback is requested
DecayDue ==
    \/ inflight # {} /\ used < 1
    \/ mounted /\ Queued
    \/ effectPending
    \/ \E g \in DOMAIN gens : gens[g].frames > 0

\* the browser delivers the response and runs every requested frame
\* callback: weak fairness of NextDecay, WF_vars(NextDecay), with its
\* ENABLED written as the state predicate DecayDue
SpecDecayLive == SpecDecay /\ ([]<>~DecayDue \/ []<><<NextDecay>>_<<last, vars>>)

-----------------------------------------------------------------------------
(* SpecSettle: the first simulation runs SettleStart frames undisturbed    *)
(* and is then followed through its settling with node drags.              *)

InitSettle ==
    /\ minAmount = InitialMinAmount
    /\ inflight = {}
    /\ nextSeq = 1
    /\ data = ServerGraph(InitialMinAmount)
    /\ dataSeq = 1
    /\ loading = FALSE
    /\ mounted = TRUE
    /\ transform = IdentityTransform
    /\ gens = <<BuildScene(ServerGraph(InitialMinAmount), 0)>>
    /\ pending = NoPending
    /\ effectPending = FALSE
    /\ cleanupPending = FALSE
    /\ used = 0
    /\ last = Event("effect", 1, 0, <<0, 0>>)

\* the pointer events allowed: none until SettleStart frame callbacks have run
SettleEvents == IF gens[1].ticks >= SettleStart THEN MaxSettleEvents ELSE 0

NextSettle ==
    \/ \E g \in DOMAIN gens : Frame(g, gens[g].ticks + 1)
    \/ \E n \in 1..2 : NodeMouseDown(n, SettleEvents)
    \/ \E c \in Cursors : MouseMove(c, FALSE, SettleEvents)
    \/ MouseUp(FALSE, SettleEvents)

SpecSettle == InitSettle /\ [][NextSettle]_vars

-----------------------------------------------------------------------------
(* SpecView: the transform.  It starts with the first scene displayed and  *)
(* the zoom buttons clicked up to PreZoom times.                           *)

RECURSIVE ZoomTimes(_, _, _)
\* transform t after n clicks on one zoom button
ZoomTimes(t, factor, n) ==
    IF n = 0 THEN t ELSE ZoomTimes(ZoomTransform(t, factor), factor, n - 1)

ViewStarts ==
    {IdentityTransform,
     ZoomTimes(IdentityTransform, ButtonIn, PreZoom),
     ZoomTimes(IdentityTransform, ButtonOut, PreZoom)}

InitView ==
    /\ minAmount = InitialMinAmount
    /\ inflight = {}
    /\ nextSeq = 1
    /\ data = ServerGraph(InitialMinAmount)
    /\ dataSeq = 1
    /\ loading = FALSE
    /\ mounted = TRUE
    /\ transform \in ViewStarts
    /\ gens = <<[BuildScene(ServerGraph(InitialMinAmount), 0) EXCEPT !.shown = transform]>>
    /\ pending = NoPending
    /\ effectPending = FALSE
    /\ cleanupPending = FALSE
    /\ used = 0
    /\ last = Event(IF transform = IdentityTransform THEN "effect"
                    ELSE IF transform.k[1] > transform.k[2] THEN "buttonIn"
                    ELSE "buttonOut", 0, 0, <<0, 0>>)

NextView ==
    \/ \E m \in FilterInputs : ChangeFilter(m, MaxViewEvents)
    \/ \E r \in inflight : FetchOk(r, ServerGraph(r.min), MaxViewEvents)
    \/ Render
    \/ RunDataEffect
    \/ \E c \in Cursors, zin \in BOOLEAN : Wheel(c, zin, MaxViewEvents)
    \/ \E zin \in BOOLEAN : ZoomButton(zin, MaxViewEvents)
    \/ ResetView(MaxViewEvents)
    \/ \E n \in 1..2 : NodeMouseDown(n, MaxViewEvents)
    \/ \E c \in Cursors : SvgMouseDown(c, MaxViewEvents)
    \/ \E c \in Cursors, over \in BOOLEAN : MouseMove(c, over, MaxViewEvents)
    \/ \E over \in BOOLEAN : MouseUp(over, MaxViewEvents)

SpecView == InitView /\ [][NextView]_vars

-----------------------------------------------------------------------------
(* SpecBuild: the scene built from any payload of a bounded family.        *)

NodeLists ==
    LET a == [id |-> "A", type |-> "org", total |-> 100000]
        b == [id |-> "B", type |-> "contractor", total |-> 5000]
        a2 == [id |-> "A", type |-> "contractor", total |-> 7]
        b0 == [id |-> "B", type |-> "contractor", total |-> 0]
    IN  {<< >>, <<a>>, <<a, b>>, <<b, a>>, <<a, b, a2>>, <<b0>>}

EdgeAmounts == {0, 1000, 3000}

\* the edge lists of at most maxEdges edges
EdgeLists(maxEdges) ==
    LET ends == {"A", "B", "Z"}
        edge(p, i) == [source |-> p[1], target |-> p[2],
                       amount |-> p[3], contracts |-> i]
    IN  UNION {{[i \in 1..n |-> edge(f[i], i)] :
                   f \in [1..n -> ends \X ends \X EdgeAmounts]}
               : n \in 0..maxEdges}

PayloadSpace(maxEdges) ==
    {[nodes |-> ns, edges |-> es] : ns \in NodeLists, es \in EdgeLists(maxEdges)}

NextBuild ==
    \/ \E r \in inflight : \E p \in PayloadSpace(MaxEdges) : FetchOk(r, p, 1)
    \/ Render
    \/ RunDataEffect

SpecBuild == Init /\ [][NextBuild]_vars

-----------------------------------------------------------------------------
(* SpecForce: the ticks of one simulation, for a family of payloads and    *)
(* of initial positions (the point of the Math.random stream at which the  *)
(* scene is built).                                                        *)

ForcePayloads ==
    LET a == [id |-> "A", type |-> "org", total |-> 100000]
        b == [id |-> "B", type |-> "contractor", total |-> 5000]
        c == [id |-> "C", type |-> "contractor", total |-> 0]
        edge(from, to, amount) ==
            [source |-> from, target |-> to, amount |-> amount, contracts |-> 1]
    IN  {PayloadPair,
         PayloadDangling,
         [nodes |-> <<a, b>>,
          edges |-> <<edge("A", "B", 0), edge("B", "A", 50000), edge("A", "A", 1000)>>],
         [nodes |-> <<a, b, c>>,
          edges |-> <<edge("A", "B", 30000), edge("C", "A", 10000)>>],
         [nodes |-> <<a, [id |-> "B", type |-> "contractor", total |-> -4]>>,
          edges |-> <<edge("A", "B", -1000), edge("B", "A", 2000)>>]}

DrawOffsets == 0..7

InitForce ==
    /\ minAmount = InitialMinAmount
    /\ inflight = {}
    /\ nextSeq = 1
    /\ data \in ForcePayloads
    /\ dataSeq = 1
    /\ loading = FALSE
    /\ mounted = TRUE
    /\ transform = IdentityTransform
    /\ gens \in {<<BuildScene(data, d)>> : d \in DrawOffsets}
    /\ pending = NoPending
    /\ effectPending = FALSE
    /\ cleanupPending = FALSE
    /\ used = 0
    /\ last = Event("effect", 1, 0, <<0, 0>>)

NextForce == \E g \in DOMAIN gens : Frame(g, MaxForceTicks)

SpecForce == InitForce /\ [][NextForce]_vars

-----------------------------------------------------------------------------
(* The claims.                                                             *)

IsMove(e) == e.op \in {"moveDoc", "moveSvg"}
IsWheel(e) == e.op \in {"wheelIn", "wheelOut"}

\* the cleanup of the effect run that built scene g has run: the scene was
\* replaced by a later one, or the component is gone
Cancelled(g) == g < Len(gens) \/ (~mounted /\ ~cleanupPending)

\* C1: a response to an older request never replaces the graph data that
\* came from a newer request.
C1_NewerDataNotReplaced == [][dataSeq' >= dataSeq]_vars

\* C2: after every invocation of tick() every pinned node of its scene is
\* at its pin.
C2_PinnedAtPinAfterTick ==
    last.op = "frame" =>
        \A n \in DOMAIN gens[last.g].nodes :
            LET node == gens[last.g].nodes[n]
            IN  node.fx # NoPin =>
                    Num(node.x) = Num(node.fx) /\ Num(node.y) = Num(node.fy)

\* C3: a wheel zoom at cursor c leaves the world point under c unchanged.
C3_ZoomKeepsCursorPoint ==
    [][IsWheel(last') =>
         ScreenToWorld(transform', last'.c) = ScreenToWorld(transform, last'.c)]_vars

\* C3 witness: a wheel zoom whose scale was clamped at 3 has moved the pan.
C3_Witness ==
    /\ last.op = "wheelIn"
    /\ transform.k = KMax
    /\ transform.x # <<0, 1>>

\* C4: the scale stays within [0.2, 3].
C4_ScaleWithinBounds ==
    /\ ~RLess(transform.k, KMin)
    /\ ~RLess(KMax, transform.k)

\* C4 witness: with a second scene built, a zoom-button click has hit the
\* upper clamp.
C4_Witness ==
    /\ last.op = "buttonIn"
    /\ transform.k = KMax
    /\ Len(gens) = 2

\* C5: the live edges of the scene are the payload's edges whose source and
\* target both name a node of the payload, in the payload's order.
C5_LiveEdgesResolved ==
    Current >= 1 =>
        LET sc == gens[Current]
            ids == {data.nodes[i].id : i \in DOMAIN data.nodes}
            resolved(e) == e.source \in ids /\ e.target \in ids
            expected == SelectSeq(data.edges, resolved)
        IN  /\ Len(sc.edges) = Len(expected)
            /\ \A i \in DOMAIN sc.edges :
                 /\ sc.edges[i].source \in DOMAIN sc.nodes
                 /\ sc.edges[i].target \in DOMAIN sc.nodes
                 /\ sc.nodes[sc.edges[i].source].id = expected[i].source
                 /\ sc.nodes[sc.edges[i].target].id = expected[i].target
                 /\ sc.edges[i].amount = expected[i].amount

\* C5 witness: a scene built from a payload of which one edge was dropped
\* and one kept.
C5_Witness ==
    /\ Current = 1
    /\ Len(data.edges) = 2
    /\ Len(gens[1].edges) = 1

\* C6: alpha never increases and stays within [0, 1], and the simulation
\* is settled (running = false) exactly when alpha is below 0.001.
C6_AlphaDecaysAndSettles ==
    /\ [](\A g \in DOMAIN gens :
            /\ ~FLess(gens[g].alpha, FZero) /\ ~FLess(AlphaOne, gens[g].alpha)
            /\ gens[g].running <=> ~FLess(gens[g].alpha, AlphaMin))
    /\ [][\A g \in DOMAIN gens : ~FLess(gens[g].alpha, gens'[g].alpha)]_vars

\* C6 witness: a frame callback has settled the simulation.
C6_Witness ==
    /\ last.op = "frame"
    /\ ~gens[last.g].running
    /\ FLess(gens[last.g].alpha, AlphaMin)

\* C7: a cancelled simulation is not running, and from then on no step
\* changes its alpha or any position or velocity of its nodes, or adds a
\* frame callback.
C7_CancelledSimulationStopped ==
    [][\A g \in DOMAIN gens' :
         Cancelled(g)' =>
            /\ ~gens'[g].running
            /\ Cancelled(g) =>
                 /\ gens'[g].frames <= gens[g].frames
                 /\ gens'[g].alpha = gens[g].alpha
                 /\ \A n \in DOMAIN gens[g].nodes :
                      /\ gens'[g].nodes[n].x = gens[g].nodes[n].x
                      /\ gens'[g].nodes[n].y = gens[g].nodes[n].y
                      /\ gens'[g].nodes[n].vx = gens[g].nodes[n].vx
                      /\ gens'[g].nodes[n].vy = gens[g].nodes[n].vy]_vars

\* C7 witness: the pending frame callback of a replaced scene has run while
\* a drag of one of its nodes, moved after the replacement, is in progress.
C7_Witness ==
    /\ last.op = "frame"
    /\ last.g < Len(gens)
    /\ gens[last.g].frames = 0
    /\ \E n \in DOMAIN gens[last.g].nodes :
         /\ gens[last.g].nodes[n].dragging
         /\ Num(gens[last.g].nodes[n].fx) # Num(gens[last.g].nodes[n].x)

\* C8: every simulation has at most one frame callback pending.
C8_OneFramePending == \A g \in DOMAIN gens : gens[g].frames <= 1

\* C8 witness: a frame callback is pending for a simulation that has ticked
\* and has a node under drag, after a graph replacement.
C8_Witness ==
    /\ Len(gens) = 2
    /\ gens[2].ticks >= 1
    /\ gens[2].frames = 1
    /\ \E n \in DOMAIN gens[2].nodes : gens[2].nodes[n].dragging

\* C9: after a drag-move event on a node the simulation's alpha is 0.3 and
\* the simulation is running.
C9_MoveReheats ==
    \A g \in DOMAIN gens : \A n \in DOMAIN gens[g].nodes :
        (IsMove(last) /\ gens[g].nodes[n].dragging) =>
            gens[g].alpha = MoveAlpha /\ gens[g].running

\* C10: when a node of the settled current simulation is dragged, the
\* simulation runs again with a frame callback scheduled.
C10_DragRestartsSettled ==
    [][\A n \in DOMAIN gens[Current].nodes :
         (/\ mounted
          /\ ~gens[Current].running
          /\ FLess(gens[Current].alpha, AlphaMin)
          /\ IsMove(last')
          /\ gens'[Current].nodes[n].dragging) =>
            gens'[Current].running /\ gens'[Current].frames >= 1]_vars

IsUp(e) == e.op \in {"upDoc", "upSvg"}

\* C11: after the mouseup that ends a drag of a node of the current scene,
\* alpha is 0.1, the simulation is running, and onUp has run to its end (its
\* document listeners are removed).
C11_UpReheats ==
    [][(mounted /\ Current >= 1 /\ IsUp(last')) =>
         \A n \in DOMAIN gens[Current].nodes :
            gens[Current].nodes[n].dragging =>
               /\ gens'[Current].alpha = UpAlpha
               /\ gens'[Current].running
               /\ gens'[Current].nodes[n].listeners = 0]_vars

\* C12: a simulation without nodes is settled by its first tick: it is not
\* running, no frame callback is pending, and it has no edges.
C12_EmptySettlesAtOnce ==
    \A g \in DOMAIN gens :
        (Len(gens[g].nodes) = 0 /\ gens[g].ticks >= 1) =>
            /\ ~gens[g].running
            /\ gens[g].frames = 0
            /\ Len(gens[g].edges) = 0

\* C13: in the charge step the velocity change of each node of a pair at
\* distinct positions does not point toward the other node, and the two
\* changes are opposite.
C13_ChargeRepels ==
    \A g \in DOMAIN gens : \A i, j \in DOMAIN gens[g].nodes :
        LET a == gens[g].nodes[i]
            b == gens[g].nodes[j]
            dx == FSub(Num(b.x), Num(a.x))
            dy == FSub(Num(b.y), Num(a.y))
            change == ChargeDelta(a, b, DecayAlpha(gens[g].alpha))
            toA == change.a                      \* a.vx -= ..., a.vy -= ...
            toB == change.b                      \* b.vx += ..., b.vy += ...
            along(v) == FAdd(FMul(v[1], dx), FMul(v[2], dy))
        IN  (i < j /\ (dx # FZero \/ dy # FZero)) =>
               /\ ~FLess(FZero, along(toA))
               /\ ~FLess(along(toB), FZero)
               /\ toA[1] = FNeg(toB[1]) /\ toA[2] = FNeg(toB[2])

\* the velocity changes of the link step for edge e of scene sc in its next
\* tick: .source is added to the source's velocity, .target to the target's
LinkOf(sc, e) ==
    LinkDelta(sc.nodes[sc.edges[e].source], sc.nodes[sc.edges[e].target],
              sc.edges[e].amount, sc.maxAmount, DecayAlpha(sc.alpha))

\* the endpoints' separation <<dx, dy, dist>> of edge e, target minus source
Separation(sc, e) ==
    LET s == sc.nodes[sc.edges[e].source]
        t == sc.nodes[sc.edges[e].target]
        dx == FSub(Num(t.x), Num(s.x))
        dy == FSub(Num(t.y), Num(s.y))
    IN  <<dx, dy, FSqrt(FAdd(FMul(dx, dx), FMul(dy, dy)))>>

\* the rest length 120 + (1 - amount / maxAmount) * 80 of edge e
RestLength(sc, e) == TargetDist(sc.edges[e].amount, sc.maxAmount)

\* -1, 0 or 1
Sign(v) == v[1]

\* C14: the link step's changes of the two endpoints' velocities are exact
\* negatives of each other; when the endpoints are further apart than the
\* rest length the source's change has, on each axis, the sign of the
\* target's offset from the source (the endpoints are pulled together);
\* when they are closer it has the opposite sign (they are pushed apart);
\* for a self-loop or coincident endpoints both changes are zero; on
\* distinct endpoints the step adds the source's change to the source's
\* velocity and subtracts it from the target's.
C14_LinkPullsTowardRest ==
    \A g \in DOMAIN gens : \A e \in DOMAIN gens[g].edges :
        LET sc == gens[g]
            sep == Separation(sc, e)
            rest == RestLength(sc, e)
            change == LinkOf(sc, e)
        IN  /\ change.target[1] = FNeg(change.source[1])
            /\ change.target[2] = FNeg(change.source[2])
            /\ FLess(rest, sep[3]) =>
                  /\ Sign(change.source[1]) = Sign(sep[1])
                  /\ Sign(change.source[2]) = Sign(sep[2])
            /\ (sep[3] # FZero /\ FLess(sep[3], rest)) =>
                  /\ Sign(change.source[1]) = -Sign(sep[1])
                  /\ Sign(change.source[2]) = -Sign(sep[2])
            /\ (sep[1] = FZero /\ sep[2] = FZero) =>
                  /\ change.source = <<FZero, FZero>>
                  /\ change.target = <<FZero, FZero>>
            /\ sc.edges[e].source # sc.edges[e].target =>
                  LET s == sc.edges[e].source
                      t == sc.edges[e].target
                      after == LinkApply(sc.nodes, s, t, change)
                  IN  /\ after[s].vx = FAdd(sc.nodes[s].vx, change.source[1])
                      /\ after[s].vy = FAdd(sc.nodes[s].vy, change.source[2])
                      /\ after[t].vx = FSub(sc.nodes[t].vx, change.source[1])
                      /\ after[t].vy = FSub(sc.nodes[t].vy, change.source[2])

\* C14 witness: after a tick, one edge of the scene is stretched and its
\* endpoints are pulled together, another is compressed and its endpoints
\* are pushed apart, and a third is a self-loop.
C14_Witness ==
    /\ last.op = "frame"
    /\ \E e1, e2, e3 \in DOMAIN gens[1].edges :
         LET sc == gens[1]
         IN  /\ FLess(RestLength(sc, e1), Separation(sc, e1)[3])
             /\ Sign(Separation(sc, e1)[1]) # 0
             /\ Sign(LinkOf(sc, e1).source[1]) = Sign(Separation(sc, e1)[1])
             /\ Sign(LinkOf(sc, e1).target[1]) = -Sign(Separation(sc, e1)[1])
             /\ FLess(Separation(sc, e2)[3], RestLength(sc, e2))
             /\ Sign(Separation(sc, e2)[1]) # 0
             /\ Sign(LinkOf(sc, e2).source[1]) = -Sign(Separation(sc, e2)[1])
             /\ Sign(LinkOf(sc, e2).target[1]) = Sign(Separation(sc, e2)[1])
             /\ sc.edges[e3].source = sc.edges[e3].target

\* C15: while the current scene is panning, a mousemove over the svg adds
\* the pointer's displacement since the previous pan event to the pan and
\* leaves the scale unchanged.
C15_PanAddsDisplacement ==
    [][(last'.op = "moveSvg" /\ gens[Current].isPanning) =>
         /\ transform'.x = RAdd(transform.x,
                                RInt(last'.c[1] - gens[Current].panStart[1]))
         /\ transform'.y = RAdd(transform.y,
                                RInt(last'.c[2] - gens[Current].panStart[2]))
         /\ transform'.k = transform.k]_vars

\* C16: one wheel event changes the scale k to clamp(0.2, 3, k * f), with
\* f = 1.1 for deltaY < 0 and 0.9 otherwise.
C16_WheelScalesOnce ==
    [][IsWheel(last') =>
         transform'.k = Clamp(RMul(transform.k,
                                   IF last'.op = "wheelIn" THEN WheelIn ELSE WheelOut))]_vars

IsPanStep(e) == e.op \in {"svgDown", "moveSvg", "upSvg"}

\* no node is being dragged
NoDrag == \A g \in DOMAIN gens : \A n \in DOMAIN gens[g].nodes : ~gens[g].nodes[n].dragging

\* C17: with no node drag in progress, a mousedown, mousemove or mouseup on
\* the background leaves every node (position, velocity, pin) and every
\* simulation's alpha and running flag unchanged; and a mousedown on a node
\* starts no pan.
C17_PanLeavesNodes ==
    [][/\ (IsPanStep(last') /\ NoDrag) =>
            \A g \in DOMAIN gens :
               /\ gens'[g].nodes = gens[g].nodes
               /\ gens'[g].alpha = gens[g].alpha
               /\ gens'[g].running = gens[g].running
       /\ last'.op = "nodeDown" =>
            \A g \in DOMAIN gens : gens'[g].isPanning = gens[g].isPanning]_<<used, vars>>

\* C17 witness: a pan is under way and has moved the view, after a node was
\* pressed and released.
C17_Witness ==
    /\ last.op = "moveSvg"
    /\ gens[Current].isPanning
    /\ transform.k = <<1, 1>>
    /\ transform.x # <<0, 1>>
    /\ NoDrag
    /\ \E n \in DOMAIN gens[Current].nodes : gens[Current].nodes[n].listeners > 0

\* C18: a failed fetch leaves the graph data, every simulation and the
\* loading flag as they were, queues setLoading(false) and issues no new
\* request; the render of a queued setLoading(false) sets loading to false
\* and, when no response with data is queued, leaves the graph data as it
\* was and the simulations too, unless the effect of an earlier commit was
\* still to run.
C18_FailLeavesGraph ==
    [][/\ last'.op = "fetchFail" =>
            /\ data' = data
            /\ dataSeq' = dataSeq
            /\ gens' = gens
            /\ loading' = loading
            /\ mounted => pending'.loading = "false"
            /\ pending'.seq = pending.seq
            /\ inflight' \subseteq inflight
            /\ nextSeq' = nextSeq
            /\ minAmount' = minAmount
       /\ (last'.op = "render" /\ pending.loading = "false") =>
            /\ ~loading'
       /\ (last'.op = "render" /\ pending.seq = 0) =>
            /\ data' = data
            /\ dataSeq' = dataSeq
            /\ ~effectPending'
            /\ ~effectPending => gens' = gens
            /\ inflight' = inflight
            /\ nextSeq' = nextSeq]_vars

\* C18 witness: the failure of the second request has been rendered while
\* the graph of the first is displayed and its simulation runs.
C18_Witness ==
    /\ last.op = "render"
    /\ last.g = 0
    /\ dataSeq = 1
    /\ nextSeq = 2
    /\ ~loading
    /\ inflight = {}
    /\ Current >= 1
    /\ gens[Current].running
    /\ gens[Current].ticks >= 1

\* C19: the denominators maxTotal and maxAmount are at least 1, and every
\* node with a non-negative total has a radius (a number) of at least 12
\* for an org and 6 for a contractor.
C19_RadiiPositive ==
    Current >= 1 =>
        LET sc == gens[Current]
        IN  /\ MaxTotal(data.nodes) >= 1
            /\ sc.maxAmount >= 1
            /\ \A i \in DOMAIN sc.nodes :
                 sc.nodes[i].total >= 0 =>
                    /\ sc.radii[i] # NaN
                    /\ sc.radii[i] >= (IF sc.nodes[i].type = "org" THEN 1200 ELSE 600)

\* C19 witness: a scene whose only node has total 0 and whose only edge has
\* amount 0: both denominators are the floor 1 and the radius is the base.
C19_Witness ==
    /\ Current = 1
    /\ Len(gens[1].nodes) = 1
    /\ gens[1].nodes[1].total = 0
    /\ gens[1].radii[1] = 600
    /\ Len(gens[1].edges) = 1
    /\ gens[1].edges[1].amount = 0
    /\ gens[1].maxAmount = 1

\* the live edges of scene sc that carry its largest amount
LargestEdges(sc) ==
    {e \in DOMAIN sc.edges : \A f \in DOMAIN sc.edges : sc.edges[f].amount <= sc.edges[e].amount}

WidthsInRange(sc) ==
    \A e \in DOMAIN sc.edges :
        ~RLess(sc.widths[e], RInt(1)) /\ ~RLess(RInt(6), sc.widths[e])

\* C20 as stated: every live edge's width lies in [1, 6] and the edge with
\* the largest amount has width exactly 6.
C20_LargestHasWidthSix ==
    Current >= 1 =>
        /\ WidthsInRange(gens[Current])
        /\ \A e \in LargestEdges(gens[Current]) : gens[Current].widths[e] = RInt(6)

\* C20 amended: every live edge's width lies in [1, 6], and the edge with
\* the largest amount has width exactly 6 when that amount is at least 1.
C20_WidthsWithinRange ==
    Current >= 1 =>
        /\ WidthsInRange(gens[Current])
        /\ \A e \in LargestEdges(gens[Current]) :
             gens[Current].edges[e].amount >= 1 => gens[Current].widths[e] = RInt(6)

\* C20 witness: a scene with two live edges, the larger of width 6 and the
\* smaller of width 2.
C20_Witness ==
    /\ Current = 1
    /\ Len(gens[1].edges) = 2
    /\ \E e, f \in DOMAIN gens[1].edges :
         /\ gens[1].widths[e] = RInt(6)
         /\ gens[1].widths[f] = RInt(2)
         /\ gens[1].edges[f].amount < gens[1].edges[e].amount

\* C21: a node with a negative total has the radius of its kind's base (12
\* org, 6 contractor); an edge with a negative amount has width 1 and rest
\* length 200.
C21_NegativeAsZero ==
    \A g \in DOMAIN gens :
        /\ \A n \in DOMAIN gens[g].nodes :
             gens[g].nodes[n].total < 0 =>
                gens[g].radii[n] = (IF gens[g].nodes[n].type = "org" THEN 1200 ELSE 600)
        /\ \A e \in DOMAIN gens[g].edges :
             gens[g].edges[e].amount < 0 =>
                /\ gens[g].widths[e] = RInt(1)
                /\ TargetDist(gens[g].edges[e].amount, gens[g].maxAmount) = FromInt(200)

\* C22: in every state, also right after a graph replacement, the
\* transform the current scene's group is displayed with is the stored
\* transform.
C22_ShownIsStored == Current >= 1 => gens[Current].shown = transform

\* C23: a reset stores (0, 0, 1) and displays the scene with it; the event
\* that follows computes from it: a drag-move pins the node at the cursor
\* itself, and (with one set of svg listeners) a wheel zoom at c gives
\* k = f and pan = c * (1 - f), a pan move gives pan = c - panStart.
C23_ResetThenFresh ==
    [][/\ last'.op = "reset" =>
            /\ transform' = IdentityTransform
            /\ gens'[Current].shown = IdentityTransform
       /\ (last.op = "reset" /\ last'.op = "moveDoc") =>
            \A n \in DOMAIN gens[Current].nodes :
               gens[Current].nodes[n].dragging =>
                  /\ gens'[Current].nodes[n].fx = RInt(last'.c[1])
                  /\ gens'[Current].nodes[n].fy = RInt(last'.c[2])
       /\ (last.op = "reset" /\ IsWheel(last') /\ Len(gens) = 1) =>
            LET f == IF last'.op = "wheelIn" THEN WheelIn ELSE WheelOut
            IN  transform' = [x |-> RMul(RInt(last'.c[1]), RSub(RInt(1), f)),
                              y |-> RMul(RInt(last'.c[2]), RSub(RInt(1), f)),
                              k |-> f]
       /\ (last.op = "reset" /\ last'.op = "moveSvg" /\ Len(gens) = 1
              /\ gens[1].isPanning) =>
            transform' = [x |-> RInt(last'.c[1] - gens[1].panStart[1]),
                          y |-> RInt(last'.c[2] - gens[1].panStart[2]),
                          k |-> RInt(1)]]_<<used, vars>>

\* C23 witness: the view was reset while a node is held whose pin was set
\* under the scale 3: the stored and the displayed transform are (0, 0, 1).
C23_Witness ==
    /\ last.op = "reset"
    /\ transform = IdentityTransform
    /\ gens[Current].shown = IdentityTransform
    /\ \E n \in DOMAIN gens[Current].nodes :
         /\ gens[Current].nodes[n].dragging
         /\ gens[Current].nodes[n].fx = <<10, 3>>

\* C24: the scene built for a loaded graph has every node inside the
\* viewport [0, width] x [0, height], at rest and unpinned, and its
\* simulation has alpha = 1, is running and has its first frame requested,
\* whatever the scene it replaces.
C24_FreshSceneSeeded ==
    (last.op = "effect" /\ Current >= 1) =>
        LET sc == gens[Current]
        IN  /\ sc.alpha = AlphaOne
            /\ sc.running
            /\ sc.frames = 1
            /\ \A n \in DOMAIN sc.nodes :
                 /\ ~RLess(sc.nodes[n].x, RInt(0)) /\ ~RLess(RInt(Width), sc.nodes[n].x)
                 /\ ~RLess(sc.nodes[n].y, RInt(0)) /\ ~RLess(RInt(Height), sc.nodes[n].y)
                 /\ sc.nodes[n].vx = FZero /\ sc.nodes[n].vy = FZero
                 /\ ~sc.nodes[n].dragging
                 /\ sc.nodes[n].fx = NoPin /\ sc.nodes[n].fy = NoPin

\* C24 witness: a graph was loaded over a simulation that has ticked and has
\* a node held.
C24_Witness ==
    /\ last.op = "effect"
    /\ mounted
    /\ Len(gens) = 2
    /\ Len(gens[2].nodes) >= 1
    /\ gens[1].ticks >= 1
    /\ \E n \in DOMAIN gens[1].nodes : gens[1].nodes[n].dragging

\* C25: on every pointer move with cursor c, each node with a drag in
\* progress gets the pin p with p * k + pan = c for the transform stored when
\* the event is handled, and the pin of every other node is left as it was.
C25_MovePinsDragged ==
    [][IsMove(last') =>
         \A g \in DOMAIN gens : \A n \in DOMAIN gens[g].nodes :
             IF gens[g].nodes[n].dragging
             THEN /\ RAdd(RMul(gens'[g].nodes[n].fx, transform'.k), transform'.x)
                       = RInt(last'.c[1])
                  /\ RAdd(RMul(gens'[g].nodes[n].fy, transform'.k), transform'.y)
                       = RInt(last'.c[2])
             ELSE /\ gens'[g].nodes[n].fx = gens[g].nodes[n].fx
                  /\ gens'[g].nodes[n].fy = gens[g].nodes[n].fy]_<<used, vars>>

\* C25 witness: a move was handled under a zoomed and shifted transform, the
\* held node is pinned under the cursor and the other node has no pin.
C25_Witness ==
    /\ IsMove(last)
    /\ transform.k # RInt(1)
    /\ transform.x # RInt(0)
    /\ \E n, m \in DOMAIN gens[Current].nodes :
         /\ n # m
         /\ gens[Current].nodes[n].dragging
         /\ RAdd(RMul(gens[Current].nodes[n].fx, transform.k), transform.x) = RInt(last.c[1])
         /\ gens[Current].nodes[n].fx # RInt(last.c[1])
         /\ ~gens[Current].nodes[m].dragging
         /\ gens[Current].nodes[m].fx = NoPin

\* C26: with no interaction the first simulation eventually is settled (not
\* running), and from then on it stays settled with no frame callback
\* requested.
C26_EventuallySettledForGood ==
    <>[](/\ Current >= 1
         /\ ~gens[1].running
         /\ gens[1].frames = 0)

\* C26 witness: the simulation that started at alpha = 1 is settled after its
\* frames, none is requested, and no pointer or filter event occurred.
C26_Witness ==
    /\ Current = 1
    /\ used = 1
    /\ gens[1].ticks > 1
    /\ gens[1].frames = 0
    /\ ~gens[1].running
    /\ FLess(gens[1].alpha, AlphaMin)

Pinned(node) == node.fx # NoPin /\ node.fy # NoPin
Unpinned(node) == ~(node.fx # NoPin) /\ ~(node.fy # NoPin)

\* C27: a node has a pin, both coordinates set, exactly while it is being
\* dragged and has none, both coordinates clear, otherwise; a mousedown on a
\* node pins it at its position, a mouseup clears every pin, and no other
\* step pins or unpins a node.
C27_PinnedIffDragged ==
    /\ [](\A g \in DOMAIN gens : \A n \in DOMAIN gens[g].nodes :
             IF gens[g].nodes[n].dragging THEN Pinned(gens[g].nodes[n])
                                          ELSE Unpinned(gens[g].nodes[n]))
    /\ [][/\ last'.op = "nodeDown" =>
               /\ gens'[Current].nodes[last'.n].fx = gens[Current].nodes[last'.n].x
               /\ gens'[Current].nodes[last'.n].fy = gens[Current].nodes[last'.n].y
          /\ IsUp(last') =>
               \A g \in DOMAIN gens : \A n \in DOMAIN gens[g].nodes :
                   Unpinned(gens'[g].nodes[n])
          /\ (last'.op # "nodeDown" /\ ~IsUp(last')) =>
               \A g \in DOMAIN gens : \A n \in DOMAIN gens[g].nodes :
                   Pinned(gens'[g].nodes[n]) <=> Pinned(gens[g].nodes[n])
       ]_<<used, vars>>

\* C27 witness: a tick ran during a drag that followed a finished one: the
\* held node is pinned where it is, the released node has no pin.
C27_Witness ==
    /\ last.op = "frame"
    /\ last.g = Current
    /\ \E n, m \in DOMAIN gens[Current].nodes :
         /\ gens[Current].nodes[n].dragging
         /\ Pinned(gens[Current].nodes[n])
         /\ gens[Current].nodes[n].x = gens[Current].nodes[n].fx
         /\ gens[Current].nodes[m].listeners >= 1
         /\ ~gens[Current].nodes[m].dragging
         /\ Unpinned(gens[Current].nodes[m])

\* C28: while the component is mounted and a fetch is in flight, loading is
\* true once React has rendered the queued updates.
C28_LoadingWhileInFlight == (mounted /\ inflight # {} /\ ~Queued) => loading

\* C29: a node that is not being dragged has no document listener
\* registered: the mouseup that ends a drag removes the listeners its
\* mousedown added.
C29_NoListenerAfterDrag ==
    \A g \in DOMAIN gens : \A n \in DOMAIN gens[g].nodes :
        ~gens[g].nodes[n].dragging => gens[g].nodes[n].listeners = 0

\* C30: a pointer move that follows a release of the button, wherever the
\* release happened, leaves the pan and the scale as they are.
C30_NoPanAfterRelease ==
    [][(IsUp(last) /\ IsMove(last')) => transform' = transform]_<<used, vars>>

=============================================================================
